---- MODULE Spec2Model ----
(***************************************************************************)
(* A model of righttrack_server.py (src/server.py): the result cache, the  *)
(* request handlers with their outbound calls, and the pure extraction     *)
(* functions (slugify, station_search's row scan, departures' block        *)
(* extraction, parse_overpass_result).                                     *)
(*                                                                         *)
(* Python strings are TLA+ strings; the i-th character of s is             *)
(* SubSeq(s, i, i).  Python's None is the record None.  A dict is a        *)
(* function whose DOMAIN is the set of keys present.                       *)
(***************************************************************************)
EXTENDS Integers, Sequences, FiniteSets, TLC

VARIABLES
    CACHE,      \* the module-level dict CACHE: key -> [ts, value]
    now,        \* the value time.time() returns
    ticks,      \* how many times the clock has advanced (bounded)
    last,       \* SpecCache: the last cache operation and what it returned
    written,    \* SpecCache: key -> the last cache_set made for it (history)
    pc,         \* per thread: where the request handler stands
    req,        \* per thread: the request being handled
    loc,        \* per thread: the handler's local variables
    resp,       \* per thread: the response sent
    arg,        \* pure-function specifications: the input drawn
    res         \* pure-function specifications: the outputs computed

vars == <<CACHE, now, ticks, last, written, pc, req, loc, resp, arg, res>>
cacheVars == <<CACHE, now, ticks>>
histVars == <<last, written>>
threadVars == <<pc, req, loc, resp>>
pureVars == <<arg, res>>

\* Python's None, where the other values are dicts, tuples or match objects
None == [none |-> TRUE]
\* Python's None, where the other values are str: a string no text here equals
NoneStr == "<None>"

\* ------------------------------------------------------------ bounds
MaxTicks == 3
NThreads == 2
MaxSlugLen == 4
MaxRows == 6
MaxElems == 3
MaxTagKeys == 3
MaxCells == 10

\* ------------------------------------------------------- the clock
CACHE_TTL_SECONDS == 60 * 60 * 6

\* time.time() moves on between any two steps: by a second, or by the TTL.
Tick ==
    /\ ticks < MaxTicks
    /\ \E d \in {1, CACHE_TTL_SECONDS} : now' = now + d
    /\ ticks' = ticks + 1

\* ------------------------------------------------------- dict steps
EmptyDict == [k \in {} |-> None]

\* CACHE.get(key)
dict_get(C, k) == IF k \in DOMAIN C THEN C[k] ELSE None

\* CACHE[key] = e
dict_put(C, k, e) == [j \in DOMAIN C \cup {k} |-> IF j = k THEN e ELSE C[j]]

\* del CACHE[key], for a key that is present (an absent key raises KeyError)
dict_del_nothing(C, k) == C
dict_del(C, k) == [j \in DOMAIN C \ {k} |-> C[j]]

\* time.time() - ts > CACHE_TTL_SECONDS
cache_expired(hit, t) == t - hit.ts > CACHE_TTL_SECONDS

\* cache_get run to its end with nothing in between: what it returns ...
cache_get_ret(C, k, t) ==
    LET hit == dict_get(C, k) IN
    IF hit = None THEN None
    ELSE IF cache_expired(hit, t) THEN None
    ELSE hit.value

\* ... and the CACHE it leaves
cache_get_cache(C, k, t) ==
    LET hit == dict_get(C, k) IN
    IF hit = None THEN C
    ELSE IF cache_expired(hit, t) THEN dict_del(C, k)
    ELSE C

\* cache_set: CACHE[key] = (time.time(), value)
cache_set(C, k, v, t) == dict_put(C, k, [ts |-> t, value |-> v])

\* ------------------------------------------------------- str methods
\* the i-th character of s, counted from 1
ch(s, i) == SubSeq(s, i, i)

UPPER == "ABCDEFGHIJKLMNOPQRSTUVWXYZ"
LOWER == "abcdefghijklmnopqrstuvwxyz"
DIGITS == "0123456789"

lower_char(c) ==
    IF \E i \in 1..Len(UPPER) : ch(UPPER, i) = c
    THEN ch(LOWER, CHOOSE i \in 1..Len(UPPER) : ch(UPPER, i) = c)
    ELSE c

\* str.lower()
RECURSIVE str_lower(_)
str_lower(s) ==
    IF Len(s) = 0 THEN ""
    ELSE lower_char(ch(s, 1)) \o str_lower(SubSeq(s, 2, Len(s)))

\* str.replace(old, new) for a one-character old
RECURSIVE str_replace(_, _, _)
str_replace(s, old, new) ==
    IF Len(s) = 0 THEN ""
    ELSE (IF ch(s, 1) = old THEN new ELSE ch(s, 1))
         \o str_replace(SubSeq(s, 2, Len(s)), old, new)

\* str.strip(c) for a one-character c
RECURSIVE str_lstrip(_, _)
str_lstrip(s, c) ==
    IF Len(s) > 0 /\ ch(s, 1) = c THEN str_lstrip(SubSeq(s, 2, Len(s)), c) ELSE s

RECURSIVE str_rstrip(_, _)
str_rstrip(s, c) ==
    IF Len(s) > 0 /\ ch(s, Len(s)) = c
    THEN str_rstrip(SubSeq(s, 1, Len(s) - 1), c) ELSE s

str_strip(s, c) == str_rstrip(str_lstrip(s, c), c)

\* p in s
str_contains(p, s) ==
    \E i \in 1..(Len(s) - Len(p) + 1) : SubSeq(s, i, i + Len(p) - 1) = p

\* s.startswith(p) read from position i (counted from 1)
starts_at(s, i, p) == i + Len(p) - 1 <= Len(s) /\ SubSeq(s, i, i + Len(p) - 1) = p

\* sep.join(parts)
RECURSIVE str_join(_, _)
str_join(sep, parts) ==
    IF Len(parts) = 0 THEN ""
    ELSE IF Len(parts) = 1 THEN parts[1]
    ELSE parts[1] \o sep \o str_join(sep, Tail(parts))

\* ------------------------------------------------------- slugify
SlugChars == {ch(LOWER, i) : i \in 1..Len(LOWER)} \cup {ch(DIGITS, i) : i \in 1..Len(DIGITS)} \cup {"-"}

\* re.sub(r"[^a-z0-9\-]+", "", s)
RECURSIVE drop_non_slug(_)
drop_non_slug(s) ==
    IF Len(s) = 0 THEN ""
    ELSE (IF ch(s, 1) \in SlugChars THEN ch(s, 1) ELSE "")
         \o drop_non_slug(SubSeq(s, 2, Len(s)))

\* re.sub(r"-{2,}", "-", s)
collapse_hyphens_not(s) == s
RECURSIVE collapse_hyphens(_)
collapse_hyphens(s) ==
    IF Len(s) < 2 THEN s
    ELSE IF ch(s, 1) = "-" /\ ch(s, 2) = "-" THEN collapse_hyphens(SubSeq(s, 2, Len(s)))
    ELSE ch(s, 1) \o collapse_hyphens(SubSeq(s, 2, Len(s)))

slugify(text) ==
    LET s1 == str_lower(text)
        s2 == str_replace(str_replace(s1, "(", ""), ")", "")
        s3 == str_replace(str_replace(str_replace(s2, "/", "-"), " ", "-"), "&", "and")
        s4 == drop_non_slug(s3)
    IN  str_strip(collapse_hyphens(s4), "-")

\* ------------------------------------------------- initial conditions
Threads == 1..NThreads

CacheIdle == CACHE = EmptyDict /\ now = 0 /\ ticks = 0
HistIdle == last = None /\ written = EmptyDict
ThreadIdle ==
    /\ pc = [t \in Threads |-> "idle"]
    /\ req = [t \in Threads |-> None]
    /\ loc = [t \in Threads |-> None]
    /\ resp = [t \in Threads |-> None]

\* ------------------------------------------------- slugify, applied
\* One character of each kind slugify tells apart.
SlugAlphabet == {"A", "7", "-", " ", "/", "&", "(", ")", "!"}

RECURSIVE StrsUpTo(_)
StrsUpTo(n) ==
    IF n = 0 THEN {""}
    ELSE LET S == StrsUpTo(n - 1) IN S \cup {s \o c : s \in S, c \in SlugAlphabet}

InitSlug ==
    /\ CacheIdle /\ HistIdle /\ ThreadIdle
    /\ arg \in [fn : {"slugify"}, text : StrsUpTo(MaxSlugLen)]
    /\ res = <<>>

\* slugify(text)
ApplySlugify ==
    /\ arg.fn = "slugify" /\ Len(res) = 0
    /\ res' = <<slugify(arg.text)>>
    /\ UNCHANGED <<cacheVars, histVars, threadVars, arg>>

\* slugify(slugify(text))
ReapplySlugify ==
    /\ arg.fn = "slugify" /\ Len(res) = 1
    /\ res' = Append(res, slugify(res[1]))
    /\ UNCHANGED <<cacheVars, histVars, threadVars, arg>>

NextSlug == ApplySlugify \/ ReapplySlugify
SpecSlug == InitSlug /\ [][NextSlug]_vars

\* ^[a-z0-9]+(-[a-z0-9]+)*$, or the empty string
IsSlug(s) ==
    /\ \A i \in 1..Len(s) : ch(s, i) \in SlugChars
    /\ Len(s) > 0 => ch(s, 1) # "-" /\ ch(s, Len(s)) # "-"
    /\ \A i \in 1..(Len(s) - 1) : ~(ch(s, i) = "-" /\ ch(s, i + 1) = "-")

\* C4: slugify's output is empty or matches ^[a-z0-9]+(-[a-z0-9]+)*$, and
\* slugify is idempotent: slugify(slugify(x)) = slugify(x) for every x.
C4_SlugifyIdempotentAndWellFormed ==
    /\ Len(res) >= 1 => IsSlug(res[1])
    /\ Len(res) = 2 => res[2] = res[1]

\* an input whose slug differs from it, with "&" spelled out and a hyphen kept
C4_Witness ==
    /\ Len(res) = 2
    /\ arg.text # res[1]
    /\ str_contains("and", res[1]) /\ str_contains("-", res[1])

\* ------------------------------------------------- station_search
\* A <tr> is the sequence of the texts of its <td> cells.  The document drawn
\* has, as its i-th row, CellCounts-many cells whose texts name the row and
\* the cell, padded with blanks that .strip() removes.
CellCounts == {2, 3, 4, 5}

RowOf(r, n) == [c \in 1..n |-> " r" \o ToString(r) \o "c" \o ToString(c) \o " "]

RowsOf(counts) == [r \in 1..Len(counts) |-> RowOf(r, counts[r])]

RECURSIVE SeqsUpTo(_, _)
SeqsUpTo(n, S) ==
    IF n = 0 THEN {<<>>}
    ELSE LET T == SeqsUpTo(n - 1, S) IN T \cup {Append(q, x) : q \in T, x \in S}

Max(a, b) == IF a >= b THEN a ELSE b

\* the body of the loop, for the Python index i (rows[i] is rows[i + 1] here)
station_match(rows, i) ==
    LET main == rows[i + 1]
        sub == rows[i + 2]
    IN  IF Len(main) < 5 \/ Len(sub) < 3 THEN <<>>
        ELSE << [id |-> str_strip(main[1], " "),
                 code |-> str_strip(main[2], " "),
                 name |-> str_strip(main[3], " "),
                 division |-> str_strip(main[4], " "),
                 full |-> str_strip(main[5], " "),
                 location |-> str_strip(sub[3], " ")] >>

\* for i in range(start, stop, 2)
RECURSIVE station_scan(_, _, _)
station_scan(rows, i, stop) ==
    IF i >= stop THEN <<>>
    ELSE station_match(rows, i) \o station_scan(rows, i + 2, stop)

\* results of station_search for the rows soup.select finds
station_search(rows) == station_scan(rows, 0, Max(0, Len(rows) - 2))

InitStations ==
    /\ CacheIdle /\ HistIdle /\ ThreadIdle
    /\ arg \in [fn : {"station_search"},
                rows : {RowsOf(q) : q \in SeqsUpTo(MaxRows, CellCounts)}]
    /\ res = <<>>

ApplyStationSearch ==
    /\ arg.fn = "station_search" /\ Len(res) = 0
    /\ res' = <<station_search(arg.rows)>>
    /\ UNCHANGED <<cacheVars, histVars, threadVars, arg>>

NextStations == ApplyStationSearch
SpecStations == InitStations /\ [][NextStations]_vars

\* the k-th (primary, secondary) pair of the table, k counted from 1
WellFormedPair(rows, k) == Len(rows[2 * k - 1]) >= 5 /\ Len(rows[2 * k]) >= 3

\* one match per well-formed pair, in document order
RECURSIVE MatchesOfPairs(_, _)
MatchesOfPairs(rows, k) ==
    IF 2 * k > Len(rows) THEN <<>>
    ELSE (IF WellFormedPair(rows, k) THEN station_match(rows, 2 * k - 2) ELSE <<>>)
         \o MatchesOfPairs(rows, k + 1)

\* C2: for a table whose rows form consecutive (primary, secondary) pairs,
\* station_search emits exactly one match per well-formed pair, in document
\* order, and nothing for a truncated pair.
C2_OneMatchPerWellFormedPair ==
    (Len(res) = 1 /\ Len(arg.rows) % 2 = 0)
        => res[1] = MatchesOfPairs(arg.rows, 1)

\* ------------------------------------------------- departures
TIMETABLE_MARK == "/train/timetable/"

\* the index after the longest run, from position i, of characters in S
RECURSIVE run_end(_, _, _)
run_end(s, i, S) ==
    IF i <= Len(s) /\ ch(s, i) \in S THEN run_end(s, i + 1, S) ELSE i

NotSlash(s) == {ch(s, i) : i \in 1..Len(s)} \ {"/"}
DigitChars == {ch(DIGITS, i) : i \in 1..Len(DIGITS)}

\* r"/train/timetable/([^/]+)/(\d+)" matched at position i: [^/]+ must run up
\* to a "/", \d+ takes every digit that follows
re_match_at(s, i) ==
    LET a == i + Len(TIMETABLE_MARK)
        e == run_end(s, a, NotSlash(s))
        f == run_end(s, e + 1, DigitChars)
    IN  IF starts_at(s, i, TIMETABLE_MARK) /\ e > a /\ e <= Len(s)
           /\ ch(s, e) = "/" /\ f > e + 1
        THEN [slug |-> SubSeq(s, a, e - 1), id |-> SubSeq(s, e + 1, f - 1)]
        ELSE None

\* re.search(r"/train/timetable/([^/]+)/(\d+)", href): the leftmost match
re_search_timetable(href) ==
    LET hits == {i \in 1..Len(href) : re_match_at(href, i) # None}
    IN  IF hits = {} THEN None
        ELSE re_match_at(href, CHOOSE i \in hits : \A j \in hits : i <= j)

\* s.split("|")[0]
RECURSIVE str_before(_, _)
str_before(s, c) ==
    IF Len(s) = 0 \/ ch(s, 1) = c THEN ""
    ELSE ch(s, 1) \o str_before(SubSeq(s, 2, Len(s)), c)

\* title.split("|")[0].strip()
title_name(title) == str_strip(str_before(title, "|"), " ")

\* def t(i): cells[i].get_text(strip=True) if i < len(cells) else None
t(cells, i) == IF i < Len(cells) THEN cells[i + 1] ELSE NoneStr

\* Python's truth of a str-or-None
truthy(x) == x # NoneStr /\ x # ""

\* the first <a href> of the block whose href contains "/train/timetable/"
\* (the select_one fallback picks by the same test), or None
find_name_anchor(anchors) ==
    LET hits == {i \in 1..Len(anchors) : str_contains(TIMETABLE_MARK, anchors[i].href)}
    IN  IF hits = {} THEN None
        ELSE anchors[CHOOSE i \in hits : \A j \in hits : i <= j]

\* m = re.search(...) on the name anchor's href
link_match(block) ==
    LET a == find_name_anchor(block.anchors)
    IN  IF a = None THEN None ELSE re_search_timetable(a.href)

\* internal_id: from the link, else from the sibling summary block's t
internal_id(block) ==
    LET m == link_match(block)
    IN  IF m # None THEN m.id
        ELSE IF block.sibling # None /\ block.sibling.has_t THEN block.sibling.t
        ELSE NoneStr

\* dest != "0": the block's own child <div>s
direct_fields(block) ==
    LET cells == block.children
        a == find_name_anchor(block.anchors)
    IN  [train_no |-> t(cells, 0),
         name |-> IF a # None /\ a.title # NoneStr THEN title_name(a.title) ELSE t(cells, 1),
         ttype |-> t(cells, 2), zone |-> t(cells, 3), from_stn |-> t(cells, 4),
         platform |-> t(cells, 5), dep_time |-> t(cells, 6), to_stn |-> t(cells, 7),
         arr_time |-> t(cells, 9)]

\* dest == "0": the cells of class tdborder, tdborderhighlight, tdborderlast
routed_fields(block) ==
    LET cells == block.bordered
        a == block.name_cell_a
    IN  [train_no |-> t(cells, 0),
         name |-> IF Len(cells) > 1 /\ a # None /\ a.title # NoneStr
                  THEN title_name(a.title) ELSE t(cells, 1),
         ttype |-> t(cells, 2), zone |-> t(cells, 3), platform |-> t(cells, 4),
         from_stn |-> t(cells, 6), dep_time |-> t(cells, 7), to_stn |-> t(cells, 8),
         arr_time |-> t(cells, 9)]

block_fields_by_markup(block, dest) ==
    IF Len(block.children) > 0 THEN direct_fields(block) ELSE routed_fields(block)
block_fields(block, dest) ==
    IF dest # "0" THEN direct_fields(block) ELSE routed_fields(block)

\* train_url
train_url_always(block, f, station_id, dest) ==
    LET m == link_match(block)
        slug == IF m # None THEN m.slug ELSE slugify(f.name \o "-" \o f.train_no)
        id == internal_id(block)
    IN  TIMETABLE_MARK \o slug \o "/" \o (IF id = NoneStr THEN "" ELSE id)
            \o "/" \o station_id \o "/" \o dest
train_url(block, f, station_id, dest) ==
    LET m == link_match(block)
        slug == IF m # None THEN m.slug ELSE slugify(f.name \o "-" \o f.train_no)
        id == internal_id(block)
    IN  IF truthy(id)
        THEN TIMETABLE_MARK \o slug \o "/" \o id \o "/" \o station_id \o "/" \o dest
        ELSE NoneStr

\* the record appended
train_record(block, f, station_id, dest) ==
    [train_no |-> f.train_no, name |-> f.name, type |-> f.ttype, zone |-> f.zone,
     platform |-> f.platform, from |-> f.from_stn, departure_time |-> f.arr_time,
     to |-> f.to_stn, arrival_time |-> f.dep_time,
     train_url |-> train_url(block, f, station_id, dest)]

\* one pass of "for block in blocks": the records it appends (none or one)
departure_of(block, station_id, dest) ==
    LET f == block_fields(block, dest)
    IN  IF ~truthy(f.train_no) \/ ~truthy(f.name) THEN <<>>
        ELSE <<train_record(block, f, station_id, dest)>>

\* trains, for the blocks soup.select finds
RECURSIVE departures(_, _, _)
departures(blocks, station_id, dest) ==
    IF Len(blocks) = 0 THEN <<>>
    ELSE departure_of(Head(blocks), station_id, dest)
         \o departures(Tail(blocks), station_id, dest)

\* dest = str(data.get("dest", "")).strip() or "0"
dest_of(raw) == IF str_strip(raw, " ") = "" THEN "0" ELSE str_strip(raw, " ")

\* ------------------------------------------------- departures, applied
\* The blocks drawn.  The i-th child <div> reads "C<i>" and the i-th bordered
\* cell "B<i>" (i from 0), so that a field tells which cell it was read from;
\* one cell may be blank.
TITLE == "Raj Exp (SF) | Delhi"

CellTexts(prefix, n, blank) ==
    [i \in 1..n |-> IF i - 1 = blank THEN "" ELSE prefix \o ToString(i - 1)]

CellLens == {0, 1, 2, 8, MaxCells}
Blanks == {-1, 0, 1}

Anchor(h, ti) == [href |-> h, title |-> ti]

AnchorLists ==
    { <<>>,
      <<Anchor("/station/5", "Pune")>>,
      <<Anchor("/station/5", NoneStr), Anchor("/train/timetable/raj-exp-12951/123", TITLE)>>,
      <<Anchor("/train/timetable/raj-exp-12951/123", NoneStr)>>,
      <<Anchor("/train/timetable/raj-exp-12951/123", " | Delhi")>>,
      <<Anchor("/train/timetable/raj-exp-12951", TITLE),
        Anchor("/train/timetable/other/77", NoneStr)>>,
      <<Anchor("/train/timetable//12", NoneStr)>> }

Siblings == {None, [has_t |-> FALSE, t |-> NoneStr], [has_t |-> TRUE, t |-> ""],
             [has_t |-> TRUE, t |-> "555"]}

NameCellAnchors == {None, Anchor("/train/timetable/x/1", NoneStr),
                    Anchor("/train/timetable/x/1", TITLE)}

Blocks ==
    { [anchors |-> a, sibling |-> sb, children |-> CellTexts("C", n, bl),
       bordered |-> CellTexts("B", m, bl), name_cell_a |-> na] :
        a \in AnchorLists, sb \in Siblings, n \in CellLens, m \in CellLens,
        bl \in Blanks, na \in NameCellAnchors }

\* the "dest" of the request body ("" when absent)
RawDests == {"", "0", " 77 "}

InitDepartures ==
    /\ CacheIdle /\ HistIdle /\ ThreadIdle
    /\ arg \in [fn : {"departures"}, block : Blocks, station_id : {"12"}, raw_dest : RawDests]
    /\ res = <<>>

ApplyDepartures ==
    /\ arg.fn = "departures" /\ Len(res) = 0
    /\ res' = <<departures(<<arg.block>>, arg.station_id, dest_of(arg.raw_dest))>>
    /\ UNCHANGED <<cacheVars, histVars, threadVars, arg>>

NextDepartures == ApplyDepartures
SpecDepartures == InitDepartures /\ [][NextDepartures]_vars

\* a record was emitted for the block drawn
Emitted == Len(res) = 1 /\ Len(res[1]) = 1

\* a destination was supplied: the request's dest is neither absent, blank nor
\* the "0" the upstream URL uses for "no destination"
DestSupplied == dest_of(arg.raw_dest) # "0"

\* the text of the cell at position i (from 0) of a cell list, None beyond it
CellAt(cells, i) == IF i + 1 \in DOMAIN cells THEN cells[i + 1] ELSE NoneStr

\* C3: the layout follows from the destination alone.  With a destination the
\* fields are read from the block's child cells (train_no 0, type 2, zone 3,
\* from 4, platform 5, to 7), without one from the bordered cells (train_no 0,
\* type 2, zone 3, platform 4, from 6, to 8); departure_time is the text of
\* cell 9 in both, arrival_time that of cell 6 (direct) or cell 7 (routed).
C3_LayoutByDestination ==
    Emitted =>
        LET r == res[1][1]
            c == arg.block.children
            b == arg.block.bordered
        IN  IF DestSupplied
            THEN /\ r.train_no = CellAt(c, 0) /\ r.type = CellAt(c, 2)
                 /\ r.zone = CellAt(c, 3) /\ r.from = CellAt(c, 4)
                 /\ r.platform = CellAt(c, 5) /\ r.to = CellAt(c, 7)
                 /\ r.arrival_time = CellAt(c, 6)
                 /\ r.departure_time = CellAt(c, 9)
                 /\ r.name \in {CellAt(c, 1), title_name(TITLE)}
            ELSE /\ r.train_no = CellAt(b, 0) /\ r.type = CellAt(b, 2)
                 /\ r.zone = CellAt(b, 3) /\ r.platform = CellAt(b, 4)
                 /\ r.from = CellAt(b, 6) /\ r.to = CellAt(b, 8)
                 /\ r.arrival_time = CellAt(b, 7)
                 /\ r.departure_time = CellAt(b, 9)
                 /\ r.name \in {CellAt(b, 1), title_name(TITLE)}

\* a block with both kinds of cells, read as direct: the times are C9 and C6
C3_WitnessDirect ==
    /\ Emitted /\ DestSupplied
    /\ Len(arg.block.children) = MaxCells /\ Len(arg.block.bordered) = MaxCells
    /\ res[1][1].departure_time = "C9" /\ res[1][1].arrival_time = "C6"

\* C8: every record emitted has a non-empty train_no and name; its train_url
\* is non-null exactly when a non-empty internal identifier was recovered
\* (from the block's timetable link, else from the sibling's t attribute) and
\* is then /train/timetable/{slug}/{id}/{station_id}/{dest}, the slug being
\* the link's when the link matched and slugify(name-train_no) otherwise.
C8_RecordAndTrainUrl ==
    Emitted =>
        LET r == res[1][1]
            a == find_name_anchor(arg.block.anchors)
            m == IF a = None THEN None ELSE re_search_timetable(a.href)
            sib == arg.block.sibling
            id == IF m # None THEN m.id
                  ELSE IF sib # None /\ sib.has_t THEN sib.t ELSE ""
            slug == IF m # None THEN m.slug ELSE slugify(r.name \o "-" \o r.train_no)
        IN  /\ r.train_no # NoneStr /\ r.train_no # ""
            /\ r.name # NoneStr /\ r.name # ""
            /\ (r.train_url # NoneStr) <=> (id # "")
            /\ r.train_url # NoneStr =>
                 r.train_url = "/train/timetable/" \o slug \o "/" \o id \o "/"
                               \o arg.station_id \o "/" \o dest_of(arg.raw_dest)

\* a record whose link gave no identifier: the id is the sibling's and the
\* slug is made from the name and the number
C8_Witness ==
    /\ Emitted
    /\ link_match(arg.block) = None
    /\ res[1][1].train_url = "/train/timetable/raj-exp-sf-c0/555/12/77"

\* ------------------------------------------------- parse_overpass_result
\* d.get(k, default)
dget(d, k, default) == IF k \in DOMAIN d THEN d[k] ELSE default

\* Python's truth of tags.get(k): the tag is there and its value is not ""
tag_truthy(tags, k) == k \in DOMAIN tags /\ tags[k] # ""

TYPE_KEYS == <<"railway", "public_transport", "amenity", "office", "building",
               "highway", "entrance">>
TYPE_KEYS_SWAPPED == <<"public_transport", "railway", "office", "amenity", "building",
                       "entrance", "highway">>

\* name = tags.get("name") or tags.get("ref") or tags.get("operator") or ""
poi_name(tags) ==
    IF tag_truthy(tags, "name") THEN tags["name"]
    ELSE IF tag_truthy(tags, "ref") THEN tags["ref"]
    ELSE IF tag_truthy(tags, "operator") THEN tags["operator"]
    ELSE ""

\* type_parts, for the keys from position i on
RECURSIVE type_parts(_, _, _)
type_parts(tags, keys, i) ==
    IF i > Len(keys) THEN <<>>
    ELSE (IF keys[i] \in DOMAIN tags THEN <<keys[i] \o "=" \o tags[keys[i]]>> ELSE <<>>)
         \o type_parts(tags, keys, i + 1)

\* type_str
poi_type_swapped(tags) ==
    LET parts == type_parts(tags, TYPE_KEYS_SWAPPED, 1)
    IN  IF Len(parts) > 0 THEN str_join(", ", parts) ELSE "other"
poi_type(tags) ==
    LET parts == type_parts(tags, TYPE_KEYS, 1)
    IN  IF Len(parts) > 0 THEN str_join(", ", parts) ELSE "other"

\* emergency
poi_emergency_by_presence(tags) ==
    \/ str_contains("police", dget(tags, "amenity", ""))
    \/ str_contains("hospital", dget(tags, "amenity", ""))
    \/ "emergency" \in DOMAIN tags
    \/ "emergency_phone" \in DOMAIN tags
    \/ "contact:phone" \in DOMAIN tags
poi_emergency(tags) ==
    \/ str_contains("police", dget(tags, "amenity", ""))
    \/ str_contains("hospital", dget(tags, "amenity", ""))
    \/ tag_truthy(tags, "emergency")
    \/ tag_truthy(tags, "emergency_phone")
    \/ tag_truthy(tags, "contact:phone")

\* "if not center": the element has no center, or an empty one
has_center(el) == "center" \in DOMAIN el /\ DOMAIN el.center # {}

\* the POI appended for an element that is not skipped; float() of a
\* coordinate is the coordinate, in tenths of a degree
poi_of(el, lat, lon) ==
    LET tags == dget(el, "tags", EmptyDict)
    IN  [id |-> el.id, osm_type |-> el.type, name |-> poi_name(tags),
         type |-> poi_type(tags), lat |-> lat, lon |-> lon, tags |-> tags,
         emergency |-> poi_emergency(tags)]

\* one pass of "for el in ...": the POIs it appends (none or one)
pois_of(el) ==
    IF el.type = "node" THEN <<poi_of(el, dget(el, "lat", 0), dget(el, "lon", 0))>>
    ELSE IF ~has_center(el) THEN <<>>
    ELSE <<poi_of(el, dget(el.center, "lat", 0), dget(el.center, "lon", 0))>>

RECURSIVE parse_elements(_)
parse_elements(els) ==
    IF Len(els) = 0 THEN <<>> ELSE pois_of(Head(els)) \o parse_elements(Tail(els))

\* parse_overpass_result(data)
parse_overpass_result(data) == parse_elements(dget(data, "elements", <<>>))

\* ------------------------------------------- parse_overpass_result, applied
TagKeys == {"name", "ref", "operator", "railway", "public_transport", "amenity",
            "office", "building", "highway", "entrance", "emergency",
            "emergency_phone", "contact:phone", "wheelchair"}

ValsOf(k) ==
    CASE k = "name" -> {"", "Test"}
      [] k = "ref" -> {"", "R1"}
      [] k = "operator" -> {"IR"}
      [] k = "railway" -> {"station"}
      [] k = "public_transport" -> {"platform"}
      [] k = "amenity" -> {"hospital", "bus_stop", "police_post"}
      [] k = "office" -> {"station"}
      [] k = "building" -> {"yes"}
      [] k = "highway" -> {"bus_stop"}
      [] k = "entrance" -> {"", "main"}
      [] k = "emergency" -> {"", "yes"}
      [] k = "emergency_phone" -> {"", "112"}
      [] k = "contact:phone" -> {"", "+91"}
      [] OTHER -> {"yes"}

RECURSIVE DictsOver(_)
DictsOver(K) ==
    IF K = {} THEN {EmptyDict}
    ELSE LET k == CHOOSE x \in K : TRUE
         IN  {dict_put(d, k, v) : d \in DictsOver(K \ {k}), v \in ValsOf(k)}

TagDicts == UNION {DictsOver(K) : K \in {S \in SUBSET TagKeys : Cardinality(S) <= MaxTagKeys}}

\* the shapes of an element: a node, a node without coordinates, a way with a
\* center, a way without one, a relation with an empty center, a node
\* without a "tags" member
ElemsWith(d) ==
    { [type |-> "node", id |-> 1, lat |-> 129, lon |-> 776, tags |-> d],
      [type |-> "node", id |-> 2, tags |-> d],
      [type |-> "way", id |-> 3, center |-> [lat |-> 130, lon |-> 777], tags |-> d],
      [type |-> "way", id |-> 4, tags |-> d],
      [type |-> "relation", id |-> 5, center |-> EmptyDict, tags |-> d] }

Payloads ==
    {EmptyDict}
    \cup {[elements |-> <<e>>] : e \in UNION {ElemsWith(d) : d \in TagDicts}}
    \cup {[elements |-> <<[type |-> "node", id |-> 6, lat |-> 129, lon |-> 776]>>]}
    \cup {[elements |-> q] :
            q \in SeqsUpTo(MaxElems, ElemsWith([railway |-> "station"]))}

InitPois ==
    /\ CacheIdle /\ HistIdle /\ ThreadIdle
    /\ arg \in [fn : {"parse_overpass_result"}, data : Payloads]
    /\ res = <<>>

ApplyParseOverpass ==
    /\ arg.fn = "parse_overpass_result" /\ Len(res) = 0
    /\ res' = <<parse_overpass_result(arg.data)>>
    /\ UNCHANGED <<cacheVars, histVars, threadVars, arg>>

NextPois == ApplyParseOverpass
SpecPois == InitPois /\ [][NextPois]_vars

Parsed == Len(res) = 1
Elements == IF "elements" \in DOMAIN arg.data THEN arg.data.elements ELSE <<>>

\* the tags of the element a POI was made from
AmenityOf(p) == IF "amenity" \in DOMAIN p.tags THEN p.tags["amenity"] ELSE ""
EmergencyKeys == {"emergency", "emergency_phone", "contact:phone"}

\* C5 (as amended): emergency is true exactly when the amenity value contains
\* "police" or "hospital", or one of the tags emergency, emergency_phone,
\* contact:phone is present with a non-empty value.
C5_EmergencyFlag ==
    Parsed => \A i \in 1..Len(res[1]) :
        LET p == res[1][i] IN
        p.emergency <=>
            \/ str_contains("police", AmenityOf(p))
            \/ str_contains("hospital", AmenityOf(p))
            \/ \E k \in EmergencyKeys : k \in DOMAIN p.tags /\ p.tags[k] # ""

\* C5 (as claimed): ... or one of the tags emergency, emergency_phone,
\* contact:phone is present, whatever its value.
C5_EmergencyFlagByPresence ==
    Parsed => \A i \in 1..Len(res[1]) :
        LET p == res[1][i] IN
        p.emergency <=>
            \/ str_contains("police", AmenityOf(p))
            \/ str_contains("hospital", AmenityOf(p))
            \/ \E k \in EmergencyKeys : k \in DOMAIN p.tags

\* contact:phone set on a bus stop: an emergency POI whatever the amenity
C5_Witness ==
    /\ Parsed /\ Len(res[1]) = 1
    /\ res[1][1].tags = [amenity |-> "bus_stop"] @@ ("contact:phone" :> "+91")
    /\ res[1][1].emergency

\* the elements that give a POI: nodes, and the others that have a center
Kept(els) == SelectSeq(els, LAMBDA e : e.type = "node" \/ ("center" \in DOMAIN e /\ e.center # EmptyDict))

TagsOf(e) == IF "tags" \in DOMAIN e THEN e.tags ELSE EmptyDict

\* "k=v" for the keys of TYPE_KEYS present, in that order, joined by ", "
SummaryOf(tags) ==
    LET present == SelectSeq(TYPE_KEYS, LAMBDA k : k \in DOMAIN tags)
    IN  IF present = <<>> THEN "other"
        ELSE str_join(", ", [i \in 1..Len(present) |-> present[i] \o "=" \o tags[present[i]]])

NameOf(tags) ==
    LET cands == SelectSeq(<<"name", "ref", "operator">>,
                           LAMBDA k : k \in DOMAIN tags /\ tags[k] # "")
    IN  IF cands = <<>> THEN "" ELSE tags[cands[1]]

\* C6: one POI, in input order, for every node and every other element with
\* a center, none for the rest; type is the ", "-joined key=value pairs of the
\* keys present in the order railway, public_transport, amenity, office,
\* building, highway, entrance, or "other"; name is the first non-empty of
\* name, ref, operator, else "".
C6_OnePoiPerLocatedElement ==
    Parsed =>
        LET kept == Kept(Elements) IN
        /\ Len(res[1]) = Len(kept)
        /\ \A i \in 1..Len(kept) :
            /\ res[1][i].id = kept[i].id
            /\ res[1][i].osm_type = kept[i].type
            /\ res[1][i].type = SummaryOf(TagsOf(kept[i]))
            /\ res[1][i].name = NameOf(TagsOf(kept[i]))

\* the payload of the example: one node at 12.9, 77.6 tagged railway=station,
\* name=Test gives one POI, "railway=station", no emergency
C6_Witness ==
    /\ Parsed
    /\ arg.data = [elements |-> <<[type |-> "node", id |-> 1, lat |-> 129, lon |-> 776,
                                   tags |-> [railway |-> "station", name |-> "Test"]]>>]
    /\ Len(res[1]) = 1
    /\ res[1][1].type = "railway=station" /\ res[1][1].name = "Test"
    /\ ~res[1][1].emergency

\* ------------------------------------------------- the cache, called
PureIdle == arg = None /\ res = <<>>

CacheKeys == {"station:pune:700", "coords:12.9:77.6:700"}
CacheValues == {[success |-> TRUE, pois_count |-> n, cached |-> FALSE] : n \in {0, 1}}

InitCache == CacheIdle /\ HistIdle /\ ThreadIdle /\ PureIdle

\* cache_set(k, v)
CacheSetOp ==
    \E k \in CacheKeys, v \in CacheValues :
        /\ CACHE' = cache_set(CACHE, k, v, now)
        /\ written' = dict_put(written, k, [t |-> now, v |-> v])
        /\ last' = [op |-> "set", key |-> k, ret |-> None, pre |-> CACHE, at |-> now]
        /\ UNCHANGED <<now, ticks, threadVars, pureVars>>

\* cache_get(k)
CacheGetOp ==
    \E k \in CacheKeys :
        /\ CACHE' = cache_get_cache(CACHE, k, now)
        /\ last' = [op |-> "get", key |-> k, ret |-> cache_get_ret(CACHE, k, now),
                    pre |-> CACHE, at |-> now]
        /\ UNCHANGED <<now, ticks, written, threadVars, pureVars>>

TickCache == Tick /\ UNCHANGED <<CACHE, histVars, threadVars, pureVars>>

NextCache == CacheSetOp \/ CacheGetOp \/ TickCache
SpecCache == InitCache /\ [][NextCache]_vars

LastGet == last # None /\ last.op = "get"

\* C1: a cache_get(k) made less than the TTL after the last cache_set(k, v)
\* returns v and leaves CACHE as it was, with k's entry in it; one made more
\* than the TTL after it returns None and leaves CACHE without k (and as it
\* was otherwise), so that the next is a miss too; one for a key never set
\* returns None and leaves CACHE as it was.
C1_CacheGetAfterSet ==
    LastGet =>
        LET k == last.key IN
        IF k \notin DOMAIN written
        THEN last.ret = None /\ CACHE = last.pre
        ELSE LET w == written[k] IN
             /\ last.at - w.t < CACHE_TTL_SECONDS =>
                    /\ last.ret = w.v
                    /\ CACHE = last.pre
                    /\ k \in DOMAIN CACHE /\ CACHE[k] = [ts |-> w.t, value |-> w.v]
             /\ last.at - w.t > CACHE_TTL_SECONDS =>
                    /\ last.ret = None
                    /\ k \notin DOMAIN CACHE
                    /\ \A j \in DOMAIN last.pre \ {k} :
                           j \in DOMAIN CACHE /\ CACHE[j] = last.pre[j]
                    /\ DOMAIN CACHE \subseteq DOMAIN last.pre

\* a read after the TTL that found the entry, returned None and removed it
\* while the other key's entry stayed
C1_WitnessExpired ==
    /\ LastGet
    /\ last.key \in DOMAIN last.pre
    /\ last.at - written[last.key].t > CACHE_TTL_SECONDS
    /\ last.ret = None
    /\ DOMAIN CACHE = DOMAIN last.pre \ {last.key}
    /\ DOMAIN CACHE # {}

\* ------------------------------------------------- request handlers
\* A thread handles one request at a time.  A step of a handler runs from one
\* access to shared state (a CACHE read, write or delete, the mark put on a
\* cached dict) or from the return of an outbound call up to the next one.
\* pc: "idle", "cache_del" (about to run del CACHE[key]), "mark" (about to set
\* cached["cached"]), "geocode", "overpass", "upstream" (the call is out),
\* "done" (the response is sent).

\* int(s), for the decimal strings; anything else raises ValueError
is_int(s) == Len(s) > 0 /\ \A i \in 1..Len(s) : ch(s, i) \in DigitChars
digit_of(c) == (CHOOSE i \in 1..Len(DIGITS) : ch(DIGITS, i) = c) - 1
RECURSIVE int_of(_)
int_of(s) == IF Len(s) = 0 THEN 0
             ELSE 10 * int_of(SubSeq(s, 1, Len(s) - 1)) + digit_of(ch(s, Len(s)))

\* float(s), for digits with at most one decimal after a point, in tenths;
\* anything else here raises ValueError
is_float(s) ==
    \/ is_int(s)
    \/ /\ Len(s) >= 3 /\ ch(s, Len(s) - 1) = "."
       /\ is_int(SubSeq(s, 1, Len(s) - 2)) /\ ch(s, Len(s)) \in DigitChars
float_of(s) ==
    IF is_int(s) THEN 10 * int_of(s)
    ELSE 10 * int_of(SubSeq(s, 1, Len(s) - 2)) + digit_of(ch(s, Len(s)))

\* cache_key, for the stripped station, lat and lon and the int radius
cache_key_as_typed(station, lat, lon, radius) ==
    IF station # "" THEN "station:" \o station \o ":" \o ToString(radius)
    ELSE "coords:" \o lat \o ":" \o lon \o ":" \o ToString(radius)
cache_key(station, lat, lon, radius) ==
    IF station # "" THEN "station:" \o str_lower(station) \o ":" \o ToString(radius)
    ELSE "coords:" \o lat \o ":" \o lon \o ":" \o ToString(radius)

\* the outcomes of an outbound call
CallFailures == {"timeout", "transport", "non200"}
GeoOutcomes == {"ok", "empty", "badjson"} \cup CallFailures
OverpassOutcomes == {"ok", "badjson"} \cup CallFailures
UpstreamOutcomes == {"ok"} \cup CallFailures

\* what the geocoder finds, and what the spatial query returns
GEO_HIT == [lat |-> 185, lon |-> 738]
OVERPASS_DATA ==
    [elements |-> <<[type |-> "node", id |-> 1, lat |-> 185, lon |-> 738,
                     tags |-> [railway |-> "station", name |-> "Test"]]>>]

\* responses
Json(status, body) == [status |-> status, kind |-> "json", body |-> body]
\* an exception left the view function: the server answers 500 without a body
Unhandled(exc) == [status |-> 500, kind |-> "unhandled", body |-> [exc |-> exc]]
MapError(status, msg) == Json(status, [success |-> FALSE, error |-> msg])

\* result, as station_map builds it
map_result(center, radius, data, at) ==
    LET pois == parse_overpass_result(data)
    IN  [success |-> TRUE, center |-> center, radius |-> radius,
         source |-> "openstreetmap/overpass", pois_count |-> Len(pois),
         pois |-> pois, queried_at |-> at]

Locals(key, rad) ==
    [key |-> key, radius |-> rad, hit |-> None, alias |-> FALSE, center |-> None,
     calls |-> <<>>, pre |-> CACHE, readAt |-> now, evicted |-> None]

\* the requests drawn
MapReqs ==
    [op : {"station_map"}, station : {"", "Pune", " pune "}, lat : {"", "12.9", "x"},
     lon : {"", "77.6"}, radius : {"700", "x"}, valid : {TRUE}, configured : {TRUE}]
SameKeyReqs ==
    [op : {"station_map"}, station : {"Pune"}, lat : {""}, lon : {""},
     radius : {"700"}, valid : {TRUE}, configured : {TRUE}]
OtherReqs ==
    [op : {"station_search", "departures", "timetable"}, station : {""}, lat : {""},
     lon : {""}, radius : {""}, valid : BOOLEAN, configured : {TRUE}]
    \cup [op : {"ask_ai"}, station : {""}, lat : {""}, lon : {""}, radius : {""},
          valid : BOOLEAN, configured : BOOLEAN]

\* a thread u other than th that holds the dict object stored under key k no
\* longer holds the stored one once th has replaced or deleted the entry
Unalias(th, k) ==
    [u \in Threads |->
        IF u # th /\ loc[u] # None /\ loc[u].key = k
        THEN [loc[u] EXCEPT !.alias = FALSE]
        ELSE loc[u]]

\* lines 317-326, after a miss, for the request r and the locals l of thread
\* th (others: the locals of all threads): float(lat), float(lon), or the
\* geocoder call
AfterMiss(th, r, l, others) ==
    LET station == str_strip(r.station, " ")
        lat == str_strip(r.lat, " ")
        lon == str_strip(r.lon, " ")
    IN  IF station = ""
        THEN IF is_float(lat) /\ is_float(lon)
             THEN /\ pc' = [pc EXCEPT ![th] = "overpass"]
                  /\ resp' = resp
                  /\ loc' = [others EXCEPT ![th] = [l EXCEPT !.center =
                                [lat |-> float_of(lat), lon |-> float_of(lon)]]]
             ELSE /\ pc' = [pc EXCEPT ![th] = "done"]
                  /\ resp' = [resp EXCEPT ![th] = MapError(400, "Invalid lat/lon")]
                  /\ loc' = [others EXCEPT ![th] = l]
        ELSE /\ pc' = [pc EXCEPT ![th] = "geocode"]
             /\ resp' = resp
             /\ loc' = [others EXCEPT ![th] = l]

\* station_map, lines 306-316 and cache_get's lines 48-52: the arguments, the
\* key, hit = CACHE.get(key) and the test of its age
BeginStationMap(th, Reqs) ==
    /\ pc[th] = "idle"
    /\ \E r \in Reqs :
        LET station == str_strip(r.station, " ")
            lat == str_strip(r.lat, " ")
            lon == str_strip(r.lon, " ")
        IN
        /\ req' = [req EXCEPT ![th] = r]
        /\ UNCHANGED <<cacheVars, histVars, pureVars>>
        /\ IF ~is_int(r.radius)
           THEN /\ pc' = [pc EXCEPT ![th] = "done"]
                /\ resp' = [resp EXCEPT ![th] = Unhandled("ValueError")]
                /\ loc' = [loc EXCEPT ![th] = Locals("", 0)]
           ELSE IF station = "" /\ (lat = "" \/ lon = "")
           THEN /\ pc' = [pc EXCEPT ![th] = "done"]
                /\ resp' = [resp EXCEPT ![th] =
                                MapError(400, "Provide station name or lat & lon")]
                /\ loc' = [loc EXCEPT ![th] = Locals("", int_of(r.radius))]
           ELSE LET key == cache_key(station, lat, lon, int_of(r.radius))
                    l == Locals(key, int_of(r.radius))
                    hit == dict_get(CACHE, key)
                IN  IF hit = None THEN AfterMiss(th, r, l, loc)
                    ELSE IF cache_expired(hit, now)
                    THEN /\ pc' = [pc EXCEPT ![th] = "cache_del"]
                         /\ resp' = resp
                         /\ loc' = [loc EXCEPT ![th] = [l EXCEPT !.hit = hit, !.alias = TRUE]]
                    ELSE /\ pc' = [pc EXCEPT ![th] = "mark"]
                         /\ resp' = resp
                         /\ loc' = [loc EXCEPT ![th] = [l EXCEPT !.hit = hit, !.alias = TRUE]]

\* cache_get, line 53: del CACHE[key], then lines 317-326
CacheDel(th) ==
    /\ pc[th] = "cache_del"
    /\ UNCHANGED <<now, ticks, histVars, pureVars, req>>
    /\ IF loc[th].key \notin DOMAIN CACHE
       THEN /\ pc' = [pc EXCEPT ![th] = "done"]
            /\ resp' = [resp EXCEPT ![th] = Unhandled("KeyError")]
            /\ UNCHANGED <<CACHE, loc>>
       ELSE /\ CACHE' = dict_del(CACHE, loc[th].key)
            /\ AfterMiss(th, req[th],
                         [loc[th] EXCEPT !.evicted =
                              [entry |-> CACHE[loc[th].key], at |-> now]],
                         Unalias(th, loc[th].key))

\* station_map, lines 314-316: cached["cached"] = True, on the dict object
\* cache_get returned, which is the stored one unless the entry was replaced
\* or deleted since
MarkCached(th) ==
    /\ pc[th] = "mark"
    /\ LET marked == dict_put(loc[th].hit.value, "cached", TRUE)
       IN  /\ CACHE' = IF loc[th].alias
                       THEN [CACHE EXCEPT ![loc[th].key].value = marked]
                       ELSE CACHE
           /\ resp' = [resp EXCEPT ![th] = Json(200, marked)]
    /\ pc' = [pc EXCEPT ![th] = "done"]
    /\ UNCHANGED <<now, ticks, histVars, pureVars, req, loc>>

\* geocode_station returns or raises (line 323), then lines 324-326
Geocode(th) ==
    /\ pc[th] = "geocode"
    /\ \E o \in GeoOutcomes :
        /\ loc' = [loc EXCEPT ![th].calls = Append(@, <<"geocoder", o>>),
                              ![th].center = IF o = "ok" THEN GEO_HIT ELSE @]
        /\ IF o = "ok"
           THEN pc' = [pc EXCEPT ![th] = "overpass"] /\ resp' = resp
           ELSE /\ pc' = [pc EXCEPT ![th] = "done"]
                /\ resp' = [resp EXCEPT ![th] =
                     IF o \in {"non200", "empty"} THEN MapError(502, "Geocoding failed")
                     ELSE IF o = "badjson" THEN Unhandled("ValueError")
                     ELSE Unhandled("RequestException")]
    /\ UNCHANGED <<cacheVars, histVars, pureVars, req>>

\* requests.post returns or raises (line 329), then lines 330-346 with
\* cache_set's CACHE[key] = (time.time(), value)
Overpass(th) ==
    /\ pc[th] = "overpass"
    /\ pc' = [pc EXCEPT ![th] = "done"]
    /\ \E o \in OverpassOutcomes :
        LET l == [loc[th] EXCEPT !.calls = Append(@, <<"overpass", o>>)]
            result == map_result(l.center, l.radius, OVERPASS_DATA, now)
        IN  IF o = "ok"
            THEN /\ CACHE' = cache_set(CACHE, l.key, result, now)
                 /\ loc' = [Unalias(th, l.key) EXCEPT ![th] = l]
                 /\ resp' = [resp EXCEPT ![th] = Json(200, result)]
            ELSE /\ CACHE' = CACHE
                 /\ loc' = [loc EXCEPT ![th] = l]
                 /\ resp' = [resp EXCEPT ![th] =
                      IF o = "non200" THEN MapError(502, "Overpass returned 503")
                      ELSE MapError(500, "str(e)")]
    /\ UNCHANGED <<now, ticks, histVars, pureVars, req>>

\* station_search, departures, timetable, ask_ai: the checks of the request
\* body before the try block
BeginOther(th) ==
    /\ pc[th] = "idle"
    /\ \E r \in OtherReqs :
        /\ req' = [req EXCEPT ![th] = r]
        /\ loc' = [loc EXCEPT ![th] = Locals("", 0)]
        /\ IF ~r.valid
           THEN /\ pc' = [pc EXCEPT ![th] = "done"]
                /\ resp' = [resp EXCEPT ![th] =
                     IF r.op = "ask_ai" THEN Json(400, [ok |-> FALSE, error |-> "invalid"])
                     ELSE Json(400, [error |-> "invalid"])]
           ELSE IF ~r.configured
           THEN /\ pc' = [pc EXCEPT ![th] = "done"]
                /\ resp' = [resp EXCEPT ![th] =
                                Json(502, [ok |-> FALSE, error |-> "not configured"])]
           ELSE pc' = [pc EXCEPT ![th] = "upstream"] /\ resp' = resp
    /\ UNCHANGED <<cacheVars, histVars, pureVars>>

\* the one call inside their try block returns or raises (raise_for_status
\* raises on a non-success status), then the except clause or the result
Upstream(th) ==
    /\ pc[th] = "upstream"
    /\ pc' = [pc EXCEPT ![th] = "done"]
    /\ \E o \in UpstreamOutcomes :
        /\ loc' = [loc EXCEPT ![th].calls =
                       Append(@, <<IF req[th].op = "ask_ai" THEN "model" ELSE "scrape", o>>)]
        /\ resp' = [resp EXCEPT ![th] =
             IF o = "ok"
             THEN (IF req[th].op = "ask_ai" THEN Json(200, [ok |-> TRUE, response |-> "text"])
                   ELSE Json(200, [results |-> "list"]))
             ELSE (IF req[th].op = "ask_ai" THEN Json(500, [ok |-> FALSE, error |-> "str(e)"])
                   ELSE Json(500, [error |-> "str(e)"]))]
    /\ UNCHANGED <<cacheVars, histVars, pureVars, req>>

\* the thread takes the next request
Finish(th) ==
    /\ pc[th] = "done"
    /\ pc' = [pc EXCEPT ![th] = "idle"]
    /\ req' = [req EXCEPT ![th] = None]
    /\ loc' = [loc EXCEPT ![th] = None]
    /\ resp' = [resp EXCEPT ![th] = None]
    /\ UNCHANGED <<cacheVars, histVars, pureVars>>

TickApi == Tick /\ UNCHANGED <<CACHE, histVars, threadVars, pureVars>>

InitApi == CacheIdle /\ HistIdle /\ ThreadIdle /\ PureIdle

\* one request at a time
NextApi ==
    \/ TickApi
    \/ BeginStationMap(1, MapReqs)
    \/ CacheDel(1)
    \/ MarkCached(1)
    \/ Geocode(1)
    \/ Overpass(1)
    \/ BeginOther(1)
    \/ Upstream(1)
    \/ Finish(1)
SpecApi == InitApi /\ [][NextApi]_vars

\* requests for one key, handled by threads that interleave
NextThreads ==
    \/ TickApi
    \/ \E th \in Threads :
        \/ BeginStationMap(th, SameKeyReqs)
        \/ CacheDel(th)
        \/ MarkCached(th)
        \/ Geocode(th)
        \/ Overpass(th)
        \/ Finish(th)
SpecThreads == InitApi /\ [][NextThreads]_vars

\* ------------------------------------------------- claims on the handlers
Done(th) == pc[th] = "done"

\* C7: when an outbound call of a request times out, fails in transport or
\* returns a non-success status, no further call is made and the response is
\* a JSON failure carrying an error message; no exception leaves the handler.
C7_CallFailureGivesFailureResponse ==
    \A th \in Threads :
        (Done(th) /\ \E i \in 1..Len(loc[th].calls) : loc[th].calls[i][2] \in CallFailures)
        => /\ \A i \in 1..Len(loc[th].calls) :
                 loc[th].calls[i][2] \in CallFailures => i = Len(loc[th].calls)
           /\ resp[th].kind = "json"
           /\ resp[th].status >= 400
           /\ "error" \in DOMAIN resp[th].body

\* the key station_map is to use: the lower-cased station name, or the lat and
\* lon strings, and the radius
ExpectedKey(r) ==
    IF str_strip(r.station, " ") # ""
    THEN "station:" \o str_lower(str_strip(r.station, " ")) \o ":" \o r.radius
    ELSE "coords:" \o r.lat \o ":" \o r.lon \o ":" \o r.radius

\* station_map memoization, for the request thread 1 has answered; with
\* lazyEviction a failed request may have removed its own key's expired entry
MapMemoization(lazyEviction) ==
    (Done(1) /\ req[1].op = "station_map") =>
        LET r == req[1]
            l == loc[1]
            k == l.key
            out == resp[1]
            pre == l.pre
            fresh == out.status = 200 /\ l.calls # <<>>
            hit == out.status = 200 /\ l.calls = <<>>
            liveBefore == k \in DOMAIN pre /\ l.readAt - pre[k].ts <= CACHE_TTL_SECONDS
            staleBefore == k \in DOMAIN pre /\ l.readAt - pre[k].ts > CACHE_TTL_SECONDS
        IN  /\ fresh =>
                /\ l.calls[Len(l.calls)] = <<"overpass", "ok">>
                /\ k = ExpectedKey(r)
                /\ ~liveBefore
                /\ DOMAIN CACHE = DOMAIN pre \cup {k}
                /\ CACHE[k].value = out.body /\ out.body.success
                /\ \A j \in DOMAIN pre \ {k} : CACHE[j] = pre[j]
            /\ hit =>
                /\ liveBefore
                /\ out.body = dict_put(pre[k].value, "cached", TRUE)
                /\ out.body.success
                /\ DOMAIN CACHE = DOMAIN pre
                /\ CACHE[k] = [ts |-> pre[k].ts, value |-> out.body]
                /\ \A j \in DOMAIN pre \ {k} : CACHE[j] = pre[j]
            /\ out.status # 200 =>
                \/ CACHE = pre
                \/ /\ lazyEviction /\ staleBefore
                   /\ DOMAIN CACHE = DOMAIN pre \ {k}
                   /\ \A j \in DOMAIN CACHE : CACHE[j] = pre[j]
            /\ liveBefore => hit

\* C9 (as amended): only a request whose spatial query returned 200 and parsed
\* stores an entry, under the key of the lower-cased station (or lat/lon) and
\* radius; a failed request leaves CACHE as it was, except that it removes its
\* own key's entry when that entry had expired; a request whose key has an
\* unexpired entry makes no outbound call and returns the stored result
\* marked cached (the mark is left on the stored result too).
C9_MapMemoization == MapMemoization(TRUE)

\* C9 (as claimed): ... every request that fails leaves CACHE unchanged ...
C9_FailedRequestLeavesCacheUnchanged == MapMemoization(FALSE)

\* a request that found its key's entry expired, removed it, and then failed
C9_WitnessEvictThenFail ==
    /\ Done(1) /\ req[1].op = "station_map"
    /\ resp[1].status # 200
    /\ loc[1].key \in DOMAIN loc[1].pre
    /\ loc[1].key \notin DOMAIN CACHE

\* a second request for "Pune", typed " pune ", answered from the cache
C9_WitnessHit ==
    /\ Done(1) /\ req[1].station = " pune "
    /\ resp[1].status = 200 /\ loc[1].calls = <<>>
    /\ "cached" \in DOMAIN resp[1].body
    /\ CACHE["station:pune:700"].value = resp[1].body

\* C10: with requests for one key handled by interleaving threads, no
\* cache_get raises, and no cache_get removes an entry written less than the
\* TTL before.
C10_ConcurrentCacheGetIsSafe ==
    \A th \in Threads :
        /\ Done(th) => ~(resp[th].kind = "unhandled" /\ resp[th].body.exc = "KeyError")
        /\ (loc[th] # None /\ loc[th].evicted # None) =>
               loc[th].evicted.at - loc[th].evicted.entry.ts > CACHE_TTL_SECONDS

====
